---- MODULE Spec2Model ----
(***************************************************************************)
(* The choice prompts of src/select.rs: Select, Checkboxes (MultiSelect)   *)
(* and OrderList.  Each interact_on is a read-render loop; one action per  *)
(* arm of its `match term.read_key()?`, each action including the page     *)
(* recomputation and the redraw that close the loop body.                  *)
(*                                                                         *)
(* Vectors indexed by usize are functions on 0..len-1.  Returned Vec<usize>*)
(* values are sequences.  Item texts are not modelled, only their number.  *)
(***************************************************************************)
EXTENDS Integers, Sequences, FiniteSets

\* ---------------------------------------------------------------- bounds
MaxItems == 5
MaxBoxes == 3
MaxRows == 4

\* ------------------------------------------------------------- constants
\* `!0`, i.e. usize::MAX: the "no row highlighted" sentinel of Select and the
\* value a saturating float-to-usize cast gives for +inf.  It is only ever
\* compared for equality, so it is written -1 here.
Unset == -1

Controllers == {"Select", "Checkboxes", "OrderList"}

\* Key events after the aliases of the match arms are folded in:
\* Down = ArrowDown | 'j', Up = ArrowUp | 'k', Left = ArrowLeft | 'h',
\* Right = ArrowRight | 'l', Space = Char(' '), Other = any other key.
Keys == {"Down", "Up", "Left", "Right", "Space", "Enter", "Escape", "q", "Other"}

VARIABLES
    ctl,          \* which prompt was built
    n,            \* self.items.len()
    paged,        \* self.paged
    rows,         \* term.size().0, the terminal height
    allow_quit,   \* Select: interact_on_opt (TRUE) or interact_on (FALSE)
    default,      \* Select.default
    defaults,     \* Checkboxes.defaults
    has_prompt,   \* Select.prompt.is_some()
    clear,        \* Select.clear
    capacity,     \* let capacity
    pages,        \* let pages
    sel,          \* let mut sel
    page,         \* let mut page
    checked,      \* Checkboxes: let mut checked: Vec<bool>
    order,        \* OrderList: let mut order
    drag,         \* OrderList: let mut checked: bool
    hidden,       \* terminal cursor hidden (hide_cursor without show_cursor)
    status,       \* "built", "await" (blocked in read_key), "done", "error", "panic"
    result,       \* what interact_on returned
    last,         \* the key handled by the latest loop iteration
    vertOnly,     \* every key handled so far was Up or Down
    flips,        \* Checkboxes: per row, the Space events received on it:
                  \* 0 none, 1 an odd number, 2 an even number >= 2
    pre,          \* cursor and order before the latest key, if it was Up or Down
    trip,         \* cursor and order before the latest two keys, if they were
                  \* Down then Up or Up then Down
    run,          \* the current run of page moves with paging on:
                  \* <<key, length, page it started on>>
    show_default, \* Confirmation / Input: self.show_default
    permit_empty, \* Input: self.permit_empty
    T,            \* Input: the type the entered line is parsed into;
                  \* builders: the type of the values handed to item calls
    validator,    \* Input: the registered validators, in registration order
    inputs,       \* Confirmation / Input: what the terminal has delivered so far
    shown,        \* Confirmation / Input: how often the prompt has been rendered
    error,        \* Input / PasswordInput: the latest message passed to render.error
    allow_empty_password,  \* PasswordInput: self.allow_empty_password
    confirmation_prompt,   \* PasswordInput: self.confirmation_prompt.is_some()
    password,     \* PasswordInput: let password, once the first prompt returned it
    asking,       \* PasswordInput: the prompt whose prompt_password call is reading
    items,        \* Select / Checkboxes / OrderList: self.items
    calls,        \* the builder calls made so far, with their arguments
    spaced        \* a Space event has been handled by the loop

config == <<ctl, n, paged, rows, allow_quit, default, defaults, has_prompt, clear,
           items, calls>>
derived == <<capacity, pages>>
vars == <<ctl, n, paged, rows, allow_quit, default, defaults, has_prompt, clear,
          capacity, pages, sel, page, checked, order, drag, hidden, status,
          result, last, vertOnly, flips, pre, trip, run, spaced,
          show_default, permit_empty, T, validator, inputs, shown, error,
          allow_empty_password, confirmation_prompt, password, asking,
          items, calls>>

\* The state of the menus of select.rs and the state of the line prompts of
\* prompts.rs beyond ctl, default, hidden, status and result, which both use.
menuVars == <<n, paged, rows, allow_quit, defaults, has_prompt, clear,
              capacity, pages, sel, page, checked, order, drag, last, vertOnly,
              flips, pre, trip, run, spaced, items, calls>>
passwordVars == <<allow_empty_password, confirmation_prompt, password, asking>>
promptVars == <<show_default, permit_empty, T, validator, inputs, shown, error,
                passwordVars>>

Idx == 0 .. (n - 1)

\* ---------------------------------------------------------------- results
Pending == [kind |-> "pending", val |-> << >>]
OkIndex(i) == [kind |-> "Some", val |-> <<i>>]
OkNone == [kind |-> "None", val |-> << >>]
OkVec(v) == [kind |-> "Vec", val |-> v]
IoErr == [kind |-> "IoError", val |-> << >>]
QuitErr == [kind |-> "QuitNotAllowed", val |-> << >>]

\* `%` of Rust on signed integers truncates toward zero.
RemI64(a, b) == IF a >= 0 THEN a % b ELSE 0 - ((0 - a) % b)

\* ------------------------------------------------------------------- Init
\* Option<T>
None == << >>
Some(x) == <<x>>

\* What render.error was last called with: nothing yet, the message of a
\* failed parse, or the message of the validator registered as number `by`.
NoError == [kind |-> "none", by |-> 0]
ParseError == [kind |-> "parse", by |-> 0]
ValidatorError(i) == [kind |-> "validator", by |-> i]

\* PasswordInput::with_theme, and no password entered.
NoPassword ==
    /\ allow_empty_password = FALSE
    /\ confirmation_prompt = FALSE
    /\ password = None
    /\ asking = "password"

\* A menu session leaves the line prompts' state at rest.
NoPrompt ==
    /\ NoPassword
    /\ show_default = TRUE
    /\ permit_empty = FALSE
    /\ T = "String"
    /\ validator = << >>
    /\ inputs = << >>
    /\ shown = 0
    /\ error = NoError

\* A prompt as its builder leaves it.  The terminal height is only read
\* when paging is on.  A Checkboxes prompt, whose state carries two flag
\* vectors, is explored up to MaxBoxes items.  Checkboxes and OrderList keep the builder's
\* defaults for the fields that do not steer their loop.
Init ==
    /\ ctl \in Controllers
    /\ n \in 1 .. MaxItems
    /\ items = [k \in 1 .. n |-> "item"]
    /\ calls = << >>
    /\ (ctl = "Checkboxes" => n <= MaxBoxes)
    /\ paged \in BOOLEAN
    /\ rows \in 1 .. MaxRows
    /\ (~paged => rows = MaxRows)
    /\ allow_quit \in BOOLEAN
    /\ (ctl # "Select" => allow_quit = FALSE)
    /\ default \in ({Unset} \cup (0 .. n))
    /\ (ctl # "Select" => default = Unset)
    /\ defaults \in [0 .. (n - 1) -> BOOLEAN]
    /\ (ctl # "Checkboxes" => defaults = [i \in 0 .. (n - 1) |-> FALSE])
    /\ has_prompt \in BOOLEAN
    /\ clear \in BOOLEAN
    /\ (ctl # "Select" => (~has_prompt /\ clear))
    /\ capacity = 0
    /\ pages = 0
    /\ sel = 0
    /\ page = 0
    /\ checked = [i \in 0 .. (n - 1) |-> FALSE]
    /\ order = [i \in 0 .. (n - 1) |-> i]
    /\ drag = FALSE
    /\ hidden = FALSE
    /\ status = "built"
    /\ result = Pending
    /\ NoPrompt
    /\ last = "none"
    /\ vertOnly = TRUE
    /\ flips = [i \in 0 .. (n - 1) |-> 0]
    /\ pre = << >>
    /\ trip = << >>
    /\ run = <<"none", 0, 0>>
    /\ spaced = FALSE

\* ---------------------------------------------------------------- history
\* What the observers pre, trip and run record when a loop body handles
\* `key` and goes round again; it reads the state before the key.
Track(key) ==
    /\ pre' = (IF key \in {"Up", "Down"}
                THEN <<[sel |-> sel, order |-> order]>> ELSE << >>)
    /\ trip' = (IF (key = "Up" /\ last = "Down") \/ (key = "Down" /\ last = "Up")
                 THEN pre ELSE << >>)
    /\ run' = (IF paged /\ key \in {"Left", "Right"}
                THEN (IF run[1] = key /\ run[2] < pages
                        THEN <<key, run[2] + 1, run[3]>>
                        ELSE <<key, 1, page>>)
                ELSE <<"none", 0, 0>>)
    /\ spaced' = (spaced \/ key = "Space")

\* ----------------------------------------------------------------- Select
SelectCapacity == IF paged THEN rows - 1 ELSE n

SelectPages(len, cap) == (len \div cap) + 1

\* interact_on unwraps the Option with ok_or_else; interact_on_opt passes it.
SelectReturn(r) == IF ~allow_quit /\ r.kind = "None" THEN QuitErr ELSE r

\* Everything up to the first read_key: capacity, pages (integer division,
\* which panics on capacity 0), sel, the first frame and hide_cursor.
SelectStart ==
    /\ status = "built" /\ ctl = "Select"
    /\ capacity' = SelectCapacity
    /\ IF SelectCapacity = 0
         THEN /\ status' = "panic"
              /\ UNCHANGED <<pages, sel, page, hidden>>
         ELSE /\ status' = "await"
              /\ pages' = SelectPages(n, SelectCapacity)
              /\ sel' = default
              /\ page' = 0
              /\ hidden' = TRUE
    /\ UNCHANGED <<config, checked, order, drag, result, last, vertOnly, flips, pre, trip, run, spaced>>
    /\ UNCHANGED promptVars

\* Mutant of SelectMoveNext: the increment without the wraparound.
SelectMoveNextNoWrap(s, len) == IF s = Unset THEN 0 ELSE s + 1

SelectMoveNext(s, len) == IF s = Unset THEN 0 ELSE (s + 1) % len

SelectMovePrev(s, len) == IF s = Unset THEN len - 1 ELSE RemI64(s - 1 + len, len)

\* Mutant of SelectPagePrev: stays on the first page instead of wrapping.
SelectPagePrevStops(p, np) == IF p = 0 THEN p ELSE p - 1

SelectPagePrev(p, np) == IF p = 0 THEN np - 1 ELSE p - 1

\* Mutant of SelectPageNext: stays on the last page instead of wrapping.
SelectPageNextStops(p, np) == IF p = np - 1 THEN p ELSE p + 1

SelectPageNext(p, np) == IF p = np - 1 THEN 0 ELSE p + 1

SelectRecomputePage(s, p, cap) ==
    IF s # Unset /\ (s < p * cap \/ s >= (p + 1) * cap) THEN s \div cap ELSE p

\* The end of a loop body that did not return, and the next frame.
SelectLoopTail(s, p, key) ==
    /\ sel' = s
    /\ page' = SelectRecomputePage(s, p, capacity)
    /\ hidden' = TRUE
    /\ last' = key
    /\ vertOnly' = (vertOnly /\ key \in {"Up", "Down"})
    /\ Track(key)
    /\ UNCHANGED <<config, derived, checked, order, drag, status, result, flips>>

SelectDown ==
    /\ status = "await" /\ ctl = "Select"
    /\ SelectLoopTail(SelectMoveNext(sel, n), page, "Down")
    /\ UNCHANGED promptVars

SelectUp ==
    /\ status = "await" /\ ctl = "Select"
    /\ SelectLoopTail(SelectMovePrev(sel, n), page, "Up")
    /\ UNCHANGED promptVars

\* Mutant of SelectQuit: cancels without looking at allow_quit.
SelectQuitAlways ==
    /\ status = "await" /\ ctl = "Select"
    /\ \E key \in {"Escape", "q"} :
        /\ status' = "done"
        /\ result' = SelectReturn(OkNone)
        /\ hidden' = (IF clear THEN FALSE ELSE hidden)
        /\ last' = key
        /\ vertOnly' = FALSE
        /\ UNCHANGED <<config, derived, sel, page, checked, order, drag, flips, pre, trip, run, spaced>>
    /\ UNCHANGED promptVars

SelectQuit ==
    /\ status = "await" /\ ctl = "Select"
    /\ \E key \in {"Escape", "q"} :
        IF allow_quit
          THEN /\ status' = "done"
               /\ result' = SelectReturn(OkNone)
               /\ hidden' = (IF clear THEN FALSE ELSE hidden)
               /\ last' = key
               /\ vertOnly' = FALSE
               /\ UNCHANGED <<config, derived, sel, page, checked, order, drag, flips, pre, trip, run, spaced>>
          ELSE SelectLoopTail(sel, page, key)
    /\ UNCHANGED promptVars

SelectLeft ==
    /\ status = "await" /\ ctl = "Select"
    /\ IF paged
         THEN LET p == SelectPagePrev(page, pages)
              IN SelectLoopTail(p * capacity, p, "Left")
         ELSE SelectLoopTail(sel, page, "Left")
    /\ UNCHANGED promptVars

SelectRight ==
    /\ status = "await" /\ ctl = "Select"
    /\ IF paged
         THEN LET p == SelectPageNext(page, pages)
              IN SelectLoopTail(p * capacity, p, "Right")
         ELSE SelectLoopTail(sel, page, "Right")
    /\ UNCHANGED promptVars

\* Enter | Space with the guard `sel != !0`; `&self.items[sel]` is evaluated
\* only when a prompt is set and panics on an index outside the item list.
SelectConfirm ==
    /\ status = "await" /\ ctl = "Select"
    /\ sel # Unset
    /\ \E key \in {"Enter", "Space"} :
        /\ last' = key
        /\ vertOnly' = FALSE
        /\ IF has_prompt /\ sel >= n
             THEN /\ status' = "panic"
                  /\ UNCHANGED <<result, hidden>>
             ELSE /\ status' = "done"
                  /\ result' = SelectReturn(OkIndex(sel))
                  /\ hidden' = FALSE
        /\ UNCHANGED <<config, derived, sel, page, checked, order, drag, flips, pre, trip, run, spaced>>
    /\ UNCHANGED promptVars

\* The `_ => {}` arm: any other key, and Enter | Space while sel is unset.
SelectIgnore ==
    /\ status = "await" /\ ctl = "Select"
    /\ \E key \in {"Other", "Enter", "Space"} :
        /\ (key \in {"Enter", "Space"} => sel = Unset)
        /\ SelectLoopTail(sel, page, key)
    /\ UNCHANGED promptVars

\* A terminal or rendering call fails; `?` returns the error at once.
SelectIoError ==
    /\ status = "await" /\ ctl = "Select"
    /\ status' = "error"
    /\ result' = IoErr
    /\ UNCHANGED <<config, derived, sel, page, checked, order, drag, hidden,
                   last, vertOnly, flips, pre, trip, run, spaced>>
    /\ UNCHANGED promptVars

SelectNext ==
    \/ SelectStart
    \/ SelectDown
    \/ SelectUp
    \/ SelectQuit
    \/ SelectLeft
    \/ SelectRight
    \/ SelectConfirm
    \/ SelectIgnore
    \/ SelectIoError

\* ------------------------------------------------------------- Checkboxes
CheckboxesCapacity == IF paged THEN rows - 1 ELSE n

CheckboxesPages(len, cap) == (len \div cap) + 1

\* Everything up to the first read_key; checked is a clone of the defaults.
CheckboxesStart ==
    /\ status = "built" /\ ctl = "Checkboxes"
    /\ capacity' = CheckboxesCapacity
    /\ IF CheckboxesCapacity = 0
         THEN /\ status' = "panic"
              /\ UNCHANGED <<pages, sel, page, checked, hidden>>
         ELSE /\ status' = "await"
              /\ pages' = CheckboxesPages(n, CheckboxesCapacity)
              /\ sel' = 0
              /\ page' = 0
              /\ checked' = defaults
              /\ hidden' = TRUE
    /\ UNCHANGED <<config, order, drag, result, last, vertOnly, flips, pre, trip, run, spaced>>
    /\ UNCHANGED promptVars

CheckboxesMoveNext(s, len) == IF s = Unset THEN 0 ELSE (s + 1) % len

CheckboxesMovePrev(s, len) == IF s = Unset THEN len - 1 ELSE RemI64(s - 1 + len, len)

CheckboxesPagePrev(p, np) == IF p = 0 THEN np - 1 ELSE p - 1

CheckboxesPageNext(p, np) == IF p = np - 1 THEN 0 ELSE p + 1

CheckboxesRecomputePage(s, p, cap) ==
    IF s < p * cap \/ s >= (p + 1) * cap THEN s \div cap ELSE p

\* Mutant of CheckboxesToggle: sets the flag instead of flipping it.
CheckboxesToggleSets(c, s) == [c EXCEPT ![s] = TRUE]

\* Mutant of CheckboxesToggle: flips the flag of every row.
CheckboxesToggleAll(c, s) == [i \in DOMAIN c |-> ~c[i]]

\* checked[sel] = !checked[sel]
CheckboxesToggle(c, s) == [c EXCEPT ![s] = ~c[s]]

\* .enumerate().filter_map(|(idx, checked)| if checked { Some(idx) } ..).collect()
RECURSIVE CheckedIndexes(_, _, _)
CheckedIndexes(c, i, len) ==
    IF i >= len THEN << >>
    ELSE (IF c[i] THEN <<i>> ELSE << >>) \o CheckedIndexes(c, i + 1, len)

CheckboxesLoopTail(s, p, key) ==
    /\ sel' = s
    /\ page' = CheckboxesRecomputePage(s, p, capacity)
    /\ hidden' = TRUE
    /\ last' = key
    /\ vertOnly' = (vertOnly /\ key \in {"Up", "Down"})
    /\ Track(key)
    /\ UNCHANGED <<config, derived, order, drag, status, result>>

CheckboxesDown ==
    /\ status = "await" /\ ctl = "Checkboxes"
    /\ CheckboxesLoopTail(CheckboxesMoveNext(sel, n), page, "Down")
    /\ UNCHANGED <<checked, flips>>
    /\ UNCHANGED promptVars

CheckboxesUp ==
    /\ status = "await" /\ ctl = "Checkboxes"
    /\ CheckboxesLoopTail(CheckboxesMovePrev(sel, n), page, "Up")
    /\ UNCHANGED <<checked, flips>>
    /\ UNCHANGED promptVars

CheckboxesLeft ==
    /\ status = "await" /\ ctl = "Checkboxes"
    /\ IF paged
         THEN LET p == CheckboxesPagePrev(page, pages)
              IN CheckboxesLoopTail(p * capacity, p, "Left")
         ELSE CheckboxesLoopTail(sel, page, "Left")
    /\ UNCHANGED <<checked, flips>>
    /\ UNCHANGED promptVars

CheckboxesRight ==
    /\ status = "await" /\ ctl = "Checkboxes"
    /\ IF paged
         THEN LET p == CheckboxesPageNext(page, pages)
              IN CheckboxesLoopTail(p * capacity, p, "Right")
         ELSE CheckboxesLoopTail(sel, page, "Right")
    /\ UNCHANGED <<checked, flips>>
    /\ UNCHANGED promptVars

\* Indexing checked with an index outside the vector panics.
CheckboxesSpace ==
    /\ status = "await" /\ ctl = "Checkboxes"
    /\ IF sel >= n
         THEN /\ status' = "panic"
              /\ last' = "Space"
              /\ vertOnly' = FALSE
              /\ UNCHANGED <<config, derived, sel, page, checked, order, drag,
                             hidden, result, flips, pre, trip, run, spaced>>
         ELSE /\ checked' = CheckboxesToggle(checked, sel)
              /\ flips' = [flips EXCEPT ![sel] = IF flips[sel] = 1 THEN 2 ELSE 1]
              /\ CheckboxesLoopTail(sel, page, "Space")
    /\ UNCHANGED promptVars

\* Mutant of CheckboxesEscape: returns the empty selection.
CheckboxesEscapeEmpty ==
    /\ status = "await" /\ ctl = "Checkboxes"
    /\ status' = "done"
    /\ result' = OkVec(<< >>)
    /\ hidden' = FALSE
    /\ last' = "Escape"
    /\ vertOnly' = FALSE
    /\ UNCHANGED <<config, derived, sel, page, checked, order, drag, flips, pre, trip, run, spaced>>
    /\ UNCHANGED promptVars

\* Escape returns the indexes set in self.defaults.
CheckboxesEscape ==
    /\ status = "await" /\ ctl = "Checkboxes"
    /\ status' = "done"
    /\ result' = OkVec(CheckedIndexes(defaults, 0, n))
    /\ hidden' = FALSE
    /\ last' = "Escape"
    /\ vertOnly' = FALSE
    /\ UNCHANGED <<config, derived, sel, page, checked, order, drag, flips, pre, trip, run, spaced>>
    /\ UNCHANGED promptVars

\* Enter returns the indexes set in checked.
CheckboxesEnter ==
    /\ status = "await" /\ ctl = "Checkboxes"
    /\ status' = "done"
    /\ result' = OkVec(CheckedIndexes(checked, 0, n))
    /\ hidden' = FALSE
    /\ last' = "Enter"
    /\ vertOnly' = FALSE
    /\ UNCHANGED <<config, derived, sel, page, checked, order, drag, flips, pre, trip, run, spaced>>
    /\ UNCHANGED promptVars

\* The `_ => {}` arm; 'q' is not a cancel key here.
CheckboxesIgnore ==
    /\ status = "await" /\ ctl = "Checkboxes"
    /\ \E key \in {"Other", "q"} : CheckboxesLoopTail(sel, page, key)
    /\ UNCHANGED <<checked, flips>>
    /\ UNCHANGED promptVars

CheckboxesIoError ==
    /\ status = "await" /\ ctl = "Checkboxes"
    /\ status' = "error"
    /\ result' = IoErr
    /\ UNCHANGED <<config, derived, sel, page, checked, order, drag, hidden,
                   last, vertOnly, flips, pre, trip, run, spaced>>
    /\ UNCHANGED promptVars

CheckboxesNext ==
    \/ CheckboxesStart
    \/ CheckboxesDown
    \/ CheckboxesUp
    \/ CheckboxesLeft
    \/ CheckboxesRight
    \/ CheckboxesSpace
    \/ CheckboxesEscape
    \/ CheckboxesEnter
    \/ CheckboxesIgnore
    \/ CheckboxesIoError

\* -------------------------------------------------------------- OrderList
OrderListCapacity == IF paged THEN rows - 1 ELSE n

\* (len as f64 / capacity as f64).ceil() as usize; a division by 0.0 gives
\* +inf, which the cast saturates to usize::MAX.
OrderListPages(len, cap) ==
    IF cap = 0 THEN Unset
    ELSE IF len % cap = 0 THEN len \div cap ELSE (len \div cap) + 1

OrderListStart ==
    /\ status = "built" /\ ctl = "OrderList"
    /\ capacity' = OrderListCapacity
    /\ pages' = OrderListPages(n, OrderListCapacity)
    /\ sel' = 0
    /\ page' = 0
    /\ order' = [i \in 0 .. (n - 1) |-> i]
    /\ drag' = FALSE
    /\ hidden' = TRUE
    /\ status' = "await"
    /\ UNCHANGED <<config, checked, result, last, vertOnly, flips, pre, trip, run, spaced>>
    /\ UNCHANGED promptVars

OrderListMoveNext(s, len) == IF s = Unset THEN 0 ELSE (s + 1) % len

\* Mutant of OrderListMovePrev: stops at the first row instead of wrapping.
OrderListMovePrevStops(s, len) ==
    IF s = Unset THEN len - 1 ELSE IF s = 0 THEN 0 ELSE s - 1

OrderListMovePrev(s, len) == IF s = Unset THEN len - 1 ELSE RemI64(s - 1 + len, len)

OrderListPagePrev(p, np) == IF p = 0 THEN np - 1 ELSE p - 1

OrderListPageNext(p, np) == IF p = np - 1 THEN 0 ELSE p + 1

\* Mutant of Swap: the second store is lost.
SwapOneWay(o, i, j) == [o EXCEPT ![i] = o[j]]

\* order.swap(i, j)
Swap(o, i, j) == [o EXCEPT ![i] = o[j], ![j] = o[i]]

\* (a..=b).collect() and (a..=b).rev().collect(); empty when a > b.
Range(a, b) == [i \in 1 .. (b - a + 1) |-> a + i - 1]

RevRange(a, b) == [i \in 1 .. (b - a + 1) |-> b - i + 1]

\* Mutant of LeftIndexes: the two segments of a wrapping move in the other order.
LeftIndexesTailFirst(old_sel, old_page, s, len) ==
    IF old_page = 0
      THEN [i \in 1 .. (len - s) |-> len - i] \o [i \in 1 .. (old_sel + 1) |-> old_sel - i + 1]
      ELSE [i \in 1 .. (old_sel - s + 1) |-> old_sel - i + 1]

\* The positions the dragged item travels through on a Left page move.
LeftIndexes(old_sel, old_page, s, len) ==
    IF old_page = 0
      THEN RevRange(0, old_sel) \o RevRange(s, len - 1)
      ELSE RevRange(s, old_sel)

\* The positions the dragged item travels through on a Right page move.
RightIndexes(old_sel, old_page, s, len, np) ==
    IF old_page = np - 1
      THEN Range(old_sel, len - 1) \o <<0>>
      ELSE Range(old_sel, s)

\* for index in 0..(indexes.len() - 1) { order.swap(indexes[index], indexes[index + 1]) }
RECURSIVE SwapChain(_, _, _)
SwapChain(o, indexes, k) ==
    IF k >= Len(indexes) THEN o
    ELSE SwapChain(Swap(o, indexes[k], indexes[k + 1]), indexes, k + 1)

\* The end of a loop body that did not return.  The page test divides by
\* capacity, which panics when the capacity is 0.
OrderListLoopTail(s, p, o, d, key) ==
    /\ last' = key
    /\ vertOnly' = (vertOnly /\ key \in {"Up", "Down"})
    /\ IF capacity = 0
         THEN /\ status' = "panic"
              /\ spaced' = (spaced \/ key = "Space")
              /\ UNCHANGED <<sel, page, order, drag, hidden, pre, trip, run>>
         ELSE /\ sel' = s
              /\ page' = (IF s < p * capacity \/ s >= (p + 1) * capacity
                            THEN s \div capacity ELSE p)
              /\ order' = o
              /\ drag' = d
              /\ hidden' = TRUE
              /\ Track(key)
              /\ UNCHANGED status
    /\ UNCHANGED <<config, derived, checked, result, flips>>

\* Mutant of OrderListDown: swaps whether or not drag mode is on.
OrderListDownDrags ==
    /\ status = "await" /\ ctl = "OrderList"
    /\ LET s == OrderListMoveNext(sel, n)
       IN OrderListLoopTail(s, page,
              IF sel # s THEN Swap(order, sel, s) ELSE order, drag, "Down")
    /\ UNCHANGED promptVars

OrderListDown ==
    /\ status = "await" /\ ctl = "OrderList"
    /\ LET s == OrderListMoveNext(sel, n)
       IN OrderListLoopTail(s, page,
              IF drag /\ sel # s THEN Swap(order, sel, s) ELSE order, drag, "Down")
    /\ UNCHANGED promptVars

OrderListUp ==
    /\ status = "await" /\ ctl = "OrderList"
    /\ LET s == OrderListMovePrev(sel, n)
       IN OrderListLoopTail(s, page,
              IF drag /\ sel # s THEN Swap(order, sel, s) ELSE order, drag, "Up")
    /\ UNCHANGED promptVars

OrderListLeft ==
    /\ status = "await" /\ ctl = "OrderList"
    /\ IF paged
         THEN LET p == OrderListPagePrev(page, pages)
                  s == p * capacity
                  indexes == LeftIndexes(sel, page, s, n)
              IN OrderListLoopTail(s, p,
                     IF drag THEN SwapChain(order, indexes, 1) ELSE order,
                     drag, "Left")
         ELSE OrderListLoopTail(sel, page, order, drag, "Left")
    /\ UNCHANGED promptVars

OrderListRight ==
    /\ status = "await" /\ ctl = "OrderList"
    /\ IF paged
         THEN LET p == OrderListPageNext(page, pages)
                  s == p * capacity
                  indexes == RightIndexes(sel, page, s, n, pages)
              IN OrderListLoopTail(s, p,
                     IF drag THEN SwapChain(order, indexes, 1) ELSE order,
                     drag, "Right")
         ELSE OrderListLoopTail(sel, page, order, drag, "Right")
    /\ UNCHANGED promptVars

OrderListSpace ==
    /\ status = "await" /\ ctl = "OrderList"
    /\ OrderListLoopTail(sel, page, order, ~drag, "Space")
    /\ UNCHANGED promptVars

RECURSIVE OrderVec(_, _, _)
OrderVec(o, i, len) == IF i >= len THEN << >> ELSE <<o[i]>> \o OrderVec(o, i + 1, len)

OrderListEnter ==
    /\ status = "await" /\ ctl = "OrderList"
    /\ status' = "done"
    /\ result' = OkVec(OrderVec(order, 0, n))
    /\ hidden' = FALSE
    /\ last' = "Enter"
    /\ vertOnly' = FALSE
    /\ UNCHANGED <<config, derived, sel, page, checked, order, drag, flips, pre, trip, run, spaced>>
    /\ UNCHANGED promptVars

\* The `_ => {}` arm; there is no Escape arm (`// TODO: Key::Escape`).
OrderListIgnore ==
    /\ status = "await" /\ ctl = "OrderList"
    /\ \E key \in {"Other", "Escape", "q"} :
        OrderListLoopTail(sel, page, order, drag, key)
    /\ UNCHANGED promptVars

OrderListIoError ==
    /\ status = "await" /\ ctl = "OrderList"
    /\ status' = "error"
    /\ result' = IoErr
    /\ UNCHANGED <<config, derived, sel, page, checked, order, drag, hidden,
                   last, vertOnly, flips, pre, trip, run, spaced>>
    /\ UNCHANGED promptVars

OrderListNext ==
    \/ OrderListStart
    \/ OrderListDown
    \/ OrderListUp
    \/ OrderListLeft
    \/ OrderListRight
    \/ OrderListSpace
    \/ OrderListEnter
    \/ OrderListIgnore
    \/ OrderListIoError

Next ==
    \/ SelectNext
    \/ CheckboxesNext
    \/ OrderListNext

Spec == Init /\ [][Next]_vars

\* ------------------------------------------------------------- properties
KeyStep == status = "await" /\ status' \in {"await", "done", "panic"}

LoopStep == status = "await" /\ status' = "await"

SetOf(seq) == {seq[k] : k \in 1 .. Len(seq)}

Ascending(seq) == \A k \in 1 .. (Len(seq) - 1) : seq[k] < seq[k + 1]

IsBijection(o) ==
    /\ DOMAIN o = Idx
    /\ \A i \in Idx : Cardinality({j \in Idx : o[j] = i}) = 1

\* The list o with the item at position p taken out and put back at position q.
RemoveInsert(o, p, q) ==
    [i \in DOMAIN o |->
        IF p <= q
          THEN (IF i < p \/ i > q THEN o[i] ELSE IF i = q THEN o[p] ELSE o[i + 1])
          ELSE (IF i < q \/ i > p THEN o[i] ELSE IF i = q THEN o[p] ELSE o[i - 1])]

\* C1: in every state of an OrderList session the order vector is a
\* bijection on 0..n-1: each item index occurs exactly once.
C1_OrderIsBijection == ctl = "OrderList" => IsBijection(order)

\* C1 witness: a wrapping page move in drag mode has rearranged the order.
C1_Witness ==
    /\ ctl = "OrderList" /\ status = "await" /\ drag /\ last = "Right"
    /\ pages >= 2 /\ page = 0
    /\ order # [i \in Idx |-> i]

\* C2: in drag mode, after an Up, Down, Left or Right event the item at the
\* new cursor position is the item that was at the old cursor position.
C2_DraggedItemFollowsCursor ==
    [][(ctl = "OrderList" /\ LoopStep /\ drag
          /\ last' \in {"Up", "Down", "Left", "Right"})
        => order'[sel'] = order[sel]]_vars

\* C2 witness: 5 items, capacity 3, Left from cursor 0 in drag mode has put
\* item 0 at position 3.
C2_Witness ==
    /\ ctl = "OrderList" /\ status = "await" /\ drag /\ last = "Left"
    /\ n = 5 /\ capacity = 3 /\ sel = 3
    /\ order[3] = 0 /\ order[0] = 4

\* C3: a Left or Right page move in drag mode yields the order with the
\* dragged item removed from the old cursor position and reinserted at the
\* new one, wrapping moves included.
C3_PageMoveIsRemoveInsert ==
    [][(ctl = "OrderList" /\ LoopStep /\ paged /\ drag
          /\ last' \in {"Left", "Right"})
        => order' = RemoveInsert(order, sel, sel')]_vars

C5_CursorUnsetOrInRange ==
    (status = "await" /\ capacity >= 1 /\ default \in ({Unset} \cup Idx))
        => (sel = Unset \/ sel \in Idx)

\* C6: Escape in a MultiSelect returns exactly the indexes whose default
\* flag is true, in ascending order, whatever was toggled before.
C6_EscapeReturnsDefaults ==
    (ctl = "Checkboxes" /\ status = "done" /\ last = "Escape")
        => /\ result.kind = "Vec"
           /\ Ascending(result.val)
           /\ SetOf(result.val) = {i \in Idx : defaults[i]}

\* C6 witness: Escape after toggles that left the checked flags different
\* from the defaults, with some default set.
C6_Witness ==
    /\ ctl = "Checkboxes" /\ status = "done" /\ last = "Escape"
    /\ checked # defaults
    /\ \E i \in Idx : defaults[i]
    /\ \E i \in Idx : checked[i] /\ ~defaults[i]

\* C7: Enter in a MultiSelect returns, in ascending order, exactly the
\* indexes whose default flag was flipped by an odd number of Space events
\* received on that row, or is set and was flipped by an even number.
C7_EnterReturnsCheckedSet ==
    (ctl = "Checkboxes" /\ status = "done" /\ last = "Enter")
        => /\ result.kind = "Vec"
           /\ Ascending(result.val)
           /\ SetOf(result.val) = {i \in Idx : defaults[i] # (flips[i] = 1)}

\* C7 witness: Enter after one row was toggled once, another twice, and a
\* third, set by default, not at all.
C7_Witness ==
    /\ ctl = "Checkboxes" /\ status = "done" /\ last = "Enter"
    /\ \E i, j, k \in Idx :
          /\ flips[i] = 1 /\ flips[j] = 2 /\ flips[k] = 0
          /\ defaults[j] /\ defaults[k]
    /\ Len(result.val) >= 2

\* C8: a Space event in a MultiSelect leaves the cursor, the page and the
\* flags of all rows but the cursor's unchanged, and flips the cursor's row.
C8_SpaceTogglesOnlyCursorRow ==
    [][(ctl = "Checkboxes" /\ KeyStep /\ last' = "Space")
        => /\ sel' = sel
           /\ page' = page
           /\ \A i \in Idx : i # sel => checked'[i] = checked[i]
           /\ (sel \in Idx => checked'[sel] = ~checked[sel])]_vars

\* C8 witness: Space was handled on a row of a later page.
C8_Witness ==
    /\ ctl = "Checkboxes" /\ status = "await" /\ last = "Space"
    /\ page >= 1 /\ sel \in Idx
    /\ checked[sel] # defaults[sel]
    /\ \E i \in Idx : i # sel /\ defaults[i]

\* C9: in a Select, Escape or 'q' returns "no selection" when quitting is
\* allowed, and is ignored with the cursor unchanged when it is not; the
\* entry point that does not allow quitting never returns "no selection"
\* nor the "Quit not allowed" error.
C9_QuitOnlyWhenAllowed ==
    [][(ctl = "Select" /\ status = "await")
        => /\ (KeyStep /\ last' \in {"Escape", "q"} /\ allow_quit)
                => (status' = "done" /\ result' = OkNone)
           /\ (KeyStep /\ last' \in {"Escape", "q"} /\ ~allow_quit)
                => (status' = "await" /\ sel' = sel /\ result' = Pending)
           /\ result'.kind # "QuitNotAllowed"
           /\ (~allow_quit => result'.kind # "None")]_vars

\* C9 witness: 'q' was ignored by a Select that does not allow quitting.
C9_Witness ==
    /\ ctl = "Select" /\ ~allow_quit /\ status = "await" /\ last = "q"
    /\ sel \in Idx

\* C10: in a Select, Enter or Space on a set cursor returns that cursor;
\* on an unset cursor it is ignored; from the unset cursor Down gives 0 and
\* Up gives n - 1.
C10_ConfirmReturnsCursor ==
    [][(ctl = "Select" /\ KeyStep /\ default \in ({Unset} \cup Idx))
        => /\ (last' \in {"Enter", "Space"} /\ sel # Unset)
                => (status' = "done" /\ result' = OkIndex(sel))
           /\ (last' \in {"Enter", "Space"} /\ sel = Unset)
                => (status' = "await" /\ sel' = Unset)
           /\ (last' = "Down" /\ sel = Unset) => sel' = 0
           /\ (last' = "Up" /\ sel = Unset) => sel' = n - 1]_vars

\* The order vector as the Vec<usize> it is returned as.
AsSeq(o) == [k \in 1 .. n |-> o[k - 1]]

\* C11: in an OrderList, Enter ends the interaction returning the order
\* vector as it is at that moment; Escape and 'q' leave cursor, page, drag
\* flag and order unchanged and the loop continues.
C11_EnterReturnsOrderEscapeIgnored ==
    [][(ctl = "OrderList" /\ KeyStep)
        => /\ last' = "Enter"
                => (status' = "done" /\ result' = OkVec(AsSeq(order)) /\ order' = order)
           /\ last' \in {"Escape", "q"}
                => (status' = "await" /\ sel' = sel /\ page' = page
                      /\ drag' = drag /\ order' = order)]_vars

\* C12: whenever an interaction has returned, with a result or with an I/O
\* error, the terminal cursor is visible again.
C12_CursorShownOnReturn == status \in {"done", "error"} => ~hidden

\* C13: at every frame, the first included, the displayed page contains a
\* set cursor: page * capacity <= cursor < (page + 1) * capacity.
C13_PageContainsCursor ==
    (status = "await" /\ capacity >= 1 /\ sel # Unset
        /\ default \in ({Unset} \cup Idx))
        => (page * capacity <= sel /\ sel < (page + 1) * capacity)

\* The least k with k * b >= a.
CeilDiv(a, b) == CHOOSE k \in 0 .. a : k * b >= a /\ (k - 1) * b < a

\* C14: with paging on and capacity >= 1, the number of pages is
\* ceil(n / capacity), so no page in 0..pages-1 is empty.
C14_PagesIsCeiling ==
    (status = "await" /\ paged /\ capacity >= 1)
        => (pages = CeilDiv(n, capacity) /\ (pages - 1) * capacity < n)

\* C15: the capacity is n without paging and rows - 1 with paging, and it
\* is at least 1, for every terminal height.
C15_CapacityAtLeastOne ==
    status # "built"
        => (capacity = (IF paged THEN rows - 1 ELSE n) /\ capacity >= 1)

\* C16: Down followed by Up, and Up followed by Down, from a cursor inside
\* the item list bring the cursor back to where it was, and in an OrderList
\* (drag mode on or off) the order vector too.
C16_MoveRoundTrip ==
    (status = "await" /\ trip # << >> /\ trip[1].sel \in Idx)
        => (sel = trip[1].sel /\ order = trip[1].order)

\* C16 witness: an OrderList in drag mode has handled Up then Down from the
\* first row, wrapping through the last row and back.
C16_Witness ==
    /\ ctl = "OrderList" /\ status = "await" /\ drag /\ n >= 3
    /\ last = "Down" /\ trip # << >> /\ trip[1].sel = 0
    /\ pre # << >> /\ pre[1].sel = n - 1 /\ pre[1].order # order

IsTerminating(key) ==
    \/ key = "Enter"
    \/ (ctl = "Select" /\ key = "Space")
    \/ (ctl = "Select" /\ allow_quit /\ key \in {"Escape", "q"})
    \/ (ctl = "Checkboxes" /\ key = "Escape")

\* C18: a prompt returns a result only on a terminating key, and after any
\* other key it draws the next frame and waits for the next key.
C18_ReturnsOnlyOnTerminatingKey ==
    [][KeyStep
        => /\ status' = "done" => IsTerminating(last')
           /\ ~IsTerminating(last') => status' = "await"]_vars

\* =================================================================
\* prompts.rs: the line prompts
\* =================================================================
\* The longest run of characters a Confirmation session is followed for.
MaxChars == 3

\* A line prompt session leaves the menus' state at rest.
NoMenu ==
    /\ n = 1
    /\ paged = FALSE
    /\ rows = MaxRows
    /\ allow_quit = FALSE
    /\ defaults = [i \in 0 .. 0 |-> FALSE]
    /\ has_prompt = FALSE
    /\ clear = TRUE
    /\ capacity = 0
    /\ pages = 0
    /\ sel = 0
    /\ page = 0
    /\ checked = [i \in 0 .. 0 |-> FALSE]
    /\ order = [i \in 0 .. 0 |-> i]
    /\ drag = FALSE
    /\ last = "none"
    /\ vertOnly = TRUE
    /\ flips = [i \in 0 .. 0 |-> 0]
    /\ pre = << >>
    /\ trip = << >>
    /\ run = <<"none", 0, 0>>
    /\ spaced = FALSE
    /\ items = << >>
    /\ calls = << >>

\* ----------------------------------------------------------- Confirmation
\* What term.read_char() can deliver: the characters the match names, and
\* two that fall to its `_` arm.
Chars == {"y", "Y", "n", "N", "\n", "\r", "x", " "}

OkBool(b) == [kind |-> "bool", val |-> <<b>>]

\* Confirmation::with_theme sets default = true and show_default = true;
\* default() and show_default() can set either to anything.
InitConfirmation ==
    /\ ctl = "Confirmation"
    /\ default \in BOOLEAN
    /\ show_default \in BOOLEAN
    /\ permit_empty = FALSE
    /\ T = "bool"
    /\ validator = << >>
    /\ inputs = << >>
    /\ shown = 0
    /\ error = NoError
    /\ hidden = FALSE
    /\ status = "built"
    /\ result = Pending
    /\ NoPassword
    /\ NoMenu

\* render.confirmation_prompt(..)?; term.hide_cursor()?; term.flush()?;
\* then the loop blocks in read_char.
ConfirmationStart ==
    /\ ctl = "Confirmation" /\ status = "built"
    /\ shown' = 1
    /\ hidden' = TRUE
    /\ status' = "await"
    /\ UNCHANGED <<ctl, default, result, show_default, permit_empty, T,
                   validator, inputs, error, menuVars, passwordVars>>

\* After the match: clear_line, confirmation_prompt_selection, show_cursor,
\* flush, return Ok(rv).
ConfirmationReturn(input, rv) ==
    /\ inputs' = Append(inputs, input)
    /\ hidden' = FALSE
    /\ status' = "done"
    /\ result' = OkBool(rv)
    /\ UNCHANGED <<ctl, default, show_default, permit_empty, T, validator,
                   shown, error, menuVars, passwordVars>>

\* 'y' | 'Y' => true
ConfirmationYes ==
    /\ ctl = "Confirmation" /\ status = "await" /\ Len(inputs) < MaxChars
    /\ \E input \in {"y", "Y"} : ConfirmationReturn(input, TRUE)

\* 'n' | 'N' => false
ConfirmationNo ==
    /\ ctl = "Confirmation" /\ status = "await" /\ Len(inputs) < MaxChars
    /\ \E input \in {"n", "N"} : ConfirmationReturn(input, FALSE)

\* Mutant of ConfirmationEnter: Enter answers yes whatever the default is.
ConfirmationEnterYes ==
    /\ ctl = "Confirmation" /\ status = "await" /\ Len(inputs) < MaxChars
    /\ \E input \in {"\n", "\r"} : ConfirmationReturn(input, TRUE)

\* '\n' | '\r' => self.default
ConfirmationEnter ==
    /\ ctl = "Confirmation" /\ status = "await" /\ Len(inputs) < MaxChars
    /\ \E input \in {"\n", "\r"} : ConfirmationReturn(input, default)

\* _ => { continue; }
ConfirmationIgnore ==
    /\ ctl = "Confirmation" /\ status = "await" /\ Len(inputs) < MaxChars
    /\ \E input \in Chars \ {"y", "Y", "n", "N", "\n", "\r"} :
        inputs' = Append(inputs, input)
    /\ UNCHANGED <<ctl, default, hidden, status, result, show_default,
                   permit_empty, T, validator, shown, error, menuVars, passwordVars>>

\* read_char or a rendering call fails; `?` returns the error at once.
ConfirmationIoError ==
    /\ ctl = "Confirmation" /\ status = "await"
    /\ status' = "error"
    /\ result' = IoErr
    /\ UNCHANGED <<ctl, default, hidden, show_default, permit_empty, T,
                   validator, inputs, shown, error, menuVars, passwordVars>>

ConfirmationNext ==
    \/ ConfirmationStart
    \/ ConfirmationYes
    \/ ConfirmationNo
    \/ ConfirmationEnter
    \/ ConfirmationIgnore
    \/ ConfirmationIoError

SpecConfirmation == InitConfirmation /\ [][ConfirmationNext]_vars

\* The characters that end a Confirmation, and the answer each one stands for.
Deciding == {"y", "Y", "n", "N", "\n", "\r"}

Answer(c, d) == IF c \in {"y", "Y"} THEN TRUE ELSE IF c \in {"n", "N"} THEN FALSE ELSE d

\* The position of the first deciding character of s, 0 if there is none.
FirstDeciding(s) ==
    IF \E k \in 1 .. Len(s) : s[k] \in Deciding
      THEN CHOOSE k \in 1 .. Len(s) :
             /\ s[k] \in Deciding
             /\ \A j \in 1 .. (k - 1) : s[j] \notin Deciding
      ELSE 0

\* C19: a Confirmation answers true on y or Y, false on n or N and its
\* default on Enter; any other character is ignored and the prompt keeps
\* waiting, so the first deciding character read is the last one read and
\* its answer is the result.
C19_FirstDecidingCharAnswers ==
    (ctl = "Confirmation" /\ status \in {"await", "done"})
        => LET k == FirstDeciding(inputs)
           IN IF k = 0
                THEN status = "await" /\ result = Pending
                ELSE /\ status = "done"
                     /\ k = Len(inputs)
                     /\ result = OkBool(Answer(inputs[k], default))

\* Two ignored characters, then Enter with the default set to false.
C19_Witness ==
    /\ ctl = "Confirmation" /\ status = "done"
    /\ ~default
    /\ Len(inputs) = 3
    /\ inputs[1] \notin Deciding /\ inputs[2] \notin Deciding
    /\ inputs[3] = "\r"
    /\ result = OkBool(FALSE)

\* ------------------------------------------------------------------ Input
\* The longest run of lines an Input session is followed for, and the most
\* validators registered on one.
MaxLines == 3
MaxValidators == 2

\* What term.read_line() can deliver: the empty line, a word, a number and
\* a number with a sign.
Lines == {"", "a", "7", "+7"}

\* Input<T> is explored for T = String and T = u8.
InputTypes == {"String", "u8"}

\* input.parse::<T>(): String::from_str accepts every line as it is;
\* u8::from_str accepts digits with an optional '+' and fails on the rest,
\* the empty line included.
Parse(t, input) ==
    IF t = "String" THEN Some(input)
    ELSE IF input \in {"7", "+7"} THEN Some(7) ELSE None

\* The validators a caller can register, each by the lines it rejects.
Validators == {"no_a", "no_digits", "no_empty"}

Rejects(v) ==
    IF v = "no_a" THEN {"a"}
    ELSE IF v = "no_digits" THEN {"7", "+7"}
    ELSE {""}

\* The closure validate_with builds: the validators registered before are
\* asked first and their error wins, then the new one is asked.
RECURSIVE Validate(_, _)
Validate(vs, value) ==
    IF vs = << >> THEN None
    ELSE LET old == Validate(SubSeq(vs, 1, Len(vs) - 1), value)
         IN IF old # None THEN old
            ELSE IF value \in Rejects(vs[Len(vs)]) THEN Some(Len(vs)) ELSE None

OkValue(v) == [kind |-> "value", val |-> <<v>>]

\* Input::with_theme followed by any of default(), allow_empty(),
\* show_default() and validate_with().
InitInput ==
    /\ ctl = "Input"
    /\ T \in InputTypes
    /\ default \in (IF T = "String" THEN {None, Some("a"), Some("7")}
                                    ELSE {None, Some(7)})
    /\ show_default \in BOOLEAN
    /\ permit_empty \in BOOLEAN
    /\ validator \in UNION {[1 .. k -> Validators] : k \in 0 .. MaxValidators}
    /\ inputs = << >>
    /\ shown = 0
    /\ error = NoError
    /\ hidden = FALSE
    /\ status = "built"
    /\ result = Pending
    /\ NoPassword
    /\ NoMenu

\* The first pass through the head of the loop: the prompt is rendered and
\* the session blocks in read_line.
InputStart ==
    /\ ctl = "Input" /\ status = "built"
    /\ shown' = 1
    /\ status' = "await"
    /\ UNCHANGED <<ctl, default, hidden, result, show_default, permit_empty, T,
                   validator, inputs, error, menuVars, passwordVars>>

\* `continue`: the loop starts over and renders the prompt again.
InputContinue(input, e) ==
    /\ inputs' = Append(inputs, input)
    /\ shown' = shown + 1
    /\ error' = e
    /\ UNCHANGED <<ctl, default, hidden, status, result, show_default,
                   permit_empty, T, validator, menuVars, passwordVars>>

\* input_prompt_selection, flush, return Ok(..)
InputReturn(input, value) ==
    /\ inputs' = Append(inputs, input)
    /\ status' = "done"
    /\ result' = OkValue(value)
    /\ UNCHANGED <<ctl, default, hidden, show_default, permit_empty, T,
                   validator, shown, error, menuVars, passwordVars>>

\* The line reaches input.parse: it is not empty, or nothing stops an empty one.
InputIsParsed(input) == input # "" \/ (default = None /\ permit_empty)

\* if input.is_empty() { if let Some(ref default) = self.default { return Ok(default.clone()) } }
InputAcceptDefault ==
    /\ ctl = "Input" /\ status = "await" /\ Len(inputs) < MaxLines
    /\ default # None
    /\ InputReturn("", default[1])

\* Mutant of InputEmptyAgain: the empty line is returned as the result.
InputEmptyReturned ==
    /\ ctl = "Input" /\ status = "await" /\ Len(inputs) < MaxLines
    /\ default = None /\ ~permit_empty
    /\ InputReturn("", "")

\* if input.is_empty() { .. else if !self.permit_empty { continue; } }
InputEmptyAgain ==
    /\ ctl = "Input" /\ status = "await" /\ Len(inputs) < MaxLines
    /\ default = None /\ ~permit_empty
    /\ InputContinue("", error)

\* Err(err) => { render.error(&err.to_string())?; continue; }
InputParseError ==
    /\ ctl = "Input" /\ status = "await" /\ Len(inputs) < MaxLines
    /\ \E input \in Lines :
        /\ InputIsParsed(input)
        /\ Parse(T, input) = None
        /\ InputContinue(input, ParseError)

\* if let Some(err) = validator(&input) { render.error(&err)?; continue; }
InputInvalid ==
    /\ ctl = "Input" /\ status = "await" /\ Len(inputs) < MaxLines
    /\ \E input \in Lines :
        /\ InputIsParsed(input)
        /\ Parse(T, input) # None
        /\ Validate(validator, input) # None
        /\ InputContinue(input, ValidatorError(Validate(validator, input)[1]))

\* Ok(value) => { .. return Ok(value); }
InputAccept ==
    /\ ctl = "Input" /\ status = "await" /\ Len(inputs) < MaxLines
    /\ \E input \in Lines :
        /\ InputIsParsed(input)
        /\ Parse(T, input) # None
        /\ Validate(validator, input) = None
        /\ InputReturn(input, Parse(T, input)[1])

\* read_line or a rendering call fails; `?` returns the error at once.
InputIoError ==
    /\ ctl = "Input" /\ status = "await"
    /\ status' = "error"
    /\ result' = IoErr
    /\ UNCHANGED <<ctl, default, hidden, show_default, permit_empty, T,
                   validator, inputs, shown, error, menuVars, passwordVars>>

InputNext ==
    \/ InputStart
    \/ InputAcceptDefault
    \/ InputEmptyAgain
    \/ InputParseError
    \/ InputInvalid
    \/ InputAccept
    \/ InputIoError

SpecInput == InitInput /\ [][InputNext]_vars

\* An Input step that reads the empty line.
ReadsEmptyLine ==
    /\ ctl = "Input" /\ status = "await" /\ status' \in {"await", "done"}
    /\ inputs' = Append(inputs, "")

\* C20: an empty line returns the default when one is set; with no default
\* and allow_empty false it returns nothing and the prompt is rendered
\* again, however many empty lines came before.
C20_EmptyLineDefaultOrAgain ==
    [][ReadsEmptyLine
        => /\ default # None
                => (status' = "done" /\ result' = OkValue(default[1]))
           /\ (default = None /\ ~permit_empty)
                => (status' = "await" /\ result' = Pending /\ shown' = shown + 1)]_vars

\* Three empty lines in a row with no default and empty input not allowed:
\* the prompt is up for the fourth time and nothing was returned.
C20_Witness ==
    /\ ctl = "Input" /\ default = None /\ ~permit_empty
    /\ inputs = <<"", "", "">>
    /\ status = "await" /\ result = Pending
    /\ shown = 4

\* ---------------------------------------------------------- PasswordInput
\* The longest run of lines a PasswordInput session is followed for.
MaxSecrets == 5

\* What read_secure_line() can deliver: the empty line and two passwords.
Secrets == {"", "a", "b"}

\* render.error(err) with the mismatch message of with_confirmation.
MismatchError == [kind |-> "mismatch", by |-> 0]

OkPassword(pw) == [kind |-> "password", val |-> <<pw>>]

\* PasswordInput::with_theme followed by any of with_confirmation() and
\* allow_empty_password().
InitPassword ==
    /\ ctl = "PasswordInput"
    /\ allow_empty_password \in BOOLEAN
    /\ confirmation_prompt \in BOOLEAN
    /\ password = None
    /\ asking = "password"
    /\ default = Unset
    /\ show_default = TRUE
    /\ permit_empty = FALSE
    /\ T = "String"
    /\ validator = << >>
    /\ inputs = << >>
    /\ shown = 0
    /\ error = NoError
    /\ hidden = FALSE
    /\ status = "built"
    /\ result = Pending
    /\ NoMenu

\* The first call of prompt_password renders self.prompt and blocks in
\* read_secure_line.
PasswordStart ==
    /\ ctl = "PasswordInput" /\ status = "built"
    /\ shown' = 1
    /\ status' = "await"
    /\ UNCHANGED <<ctl, default, hidden, result, show_default, permit_empty, T,
                   validator, inputs, error, menuVars, passwordVars>>

\* if !input.is_empty() || self.allow_empty_password { return Ok(input); }
PasswordIsEntry(input) == input # "" \/ allow_empty_password

\* A prompt is rendered (again) and the session blocks in read_secure_line.
PasswordPrompt(input, a, pw, e) ==
    /\ inputs' = Append(inputs, input)
    /\ shown' = shown + 1
    /\ asking' = a
    /\ password' = pw
    /\ error' = e
    /\ UNCHANGED <<ctl, default, hidden, status, result, show_default,
                   permit_empty, T, validator, menuVars, allow_empty_password,
                   confirmation_prompt>>

\* render.clear, password_prompt_selection, flush, return Ok(password)
PasswordReturn(input, pw) ==
    /\ inputs' = Append(inputs, input)
    /\ status' = "done"
    /\ result' = OkPassword(pw)
    /\ UNCHANGED <<ctl, default, hidden, show_default, permit_empty, T,
                   validator, shown, error, menuVars, passwordVars>>

\* prompt_password loops on an empty line that is not allowed; the same
\* prompt is rendered again.
PasswordEmptyAgain ==
    /\ ctl = "PasswordInput" /\ status = "await" /\ Len(inputs) < MaxSecrets
    /\ ~PasswordIsEntry("")
    /\ PasswordPrompt("", asking, password, error)

\* let password = self.prompt_password(..)?; with a confirmation prompt
\* configured the second prompt_password call follows.
PasswordEntered ==
    /\ ctl = "PasswordInput" /\ status = "await" /\ Len(inputs) < MaxSecrets
    /\ asking = "password" /\ confirmation_prompt
    /\ \E input \in Secrets :
        /\ PasswordIsEntry(input)
        /\ PasswordPrompt(input, "confirmation", Some(input), error)

\* The else branch: no confirmation prompt, the entry is returned.
PasswordAccept ==
    /\ ctl = "PasswordInput" /\ status = "await" /\ Len(inputs) < MaxSecrets
    /\ asking = "password" /\ ~confirmation_prompt
    /\ \E input \in Secrets :
        /\ PasswordIsEntry(input)
        /\ PasswordReturn(input, input)

\* if password == pw2 { .. return Ok(password); }
PasswordConfirmed ==
    /\ ctl = "PasswordInput" /\ status = "await" /\ Len(inputs) < MaxSecrets
    /\ asking = "confirmation"
    /\ \E pw2 \in Secrets :
        /\ PasswordIsEntry(pw2)
        /\ password = Some(pw2)
        /\ PasswordReturn(pw2, password[1])

\* Mutant of PasswordMismatch: a mismatch ends the interaction with an error.
PasswordMismatchAborts ==
    /\ ctl = "PasswordInput" /\ status = "await" /\ Len(inputs) < MaxSecrets
    /\ asking = "confirmation"
    /\ \E pw2 \in Secrets :
        /\ PasswordIsEntry(pw2)
        /\ password # Some(pw2)
        /\ inputs' = Append(inputs, pw2)
        /\ status' = "error"
        /\ result' = IoErr
        /\ UNCHANGED <<ctl, default, hidden, show_default, permit_empty, T,
                       validator, shown, error, menuVars, passwordVars>>

\* Mutant of PasswordMismatch: after a mismatch only the confirmation is
\* asked again, against the password entered before.
PasswordMismatchRetries ==
    /\ ctl = "PasswordInput" /\ status = "await" /\ Len(inputs) < MaxSecrets
    /\ asking = "confirmation"
    /\ \E pw2 \in Secrets :
        /\ PasswordIsEntry(pw2)
        /\ password # Some(pw2)
        /\ PasswordPrompt(pw2, "confirmation", password, MismatchError)

\* render.error(err)?; and the outer loop starts over with the first prompt.
PasswordMismatch ==
    /\ ctl = "PasswordInput" /\ status = "await" /\ Len(inputs) < MaxSecrets
    /\ asking = "confirmation"
    /\ \E pw2 \in Secrets :
        /\ PasswordIsEntry(pw2)
        /\ password # Some(pw2)
        /\ PasswordPrompt(pw2, "password", None, MismatchError)

\* read_secure_line or a rendering call fails; `?` returns the error at once.
PasswordIoError ==
    /\ ctl = "PasswordInput" /\ status = "await"
    /\ status' = "error"
    /\ result' = IoErr
    /\ UNCHANGED <<ctl, default, hidden, show_default, permit_empty, T,
                   validator, inputs, shown, error, menuVars, passwordVars>>

PasswordNext ==
    \/ PasswordStart
    \/ PasswordEmptyAgain
    \/ PasswordEntered
    \/ PasswordAccept
    \/ PasswordConfirmed
    \/ PasswordMismatch
    \/ PasswordIoError

SpecPassword == InitPassword /\ [][PasswordNext]_vars

\* Input and PasswordInput sessions side by side.
InitLinePrompts == InitInput \/ InitPassword

LinePromptsNext ==
    \/ InputNext
    \/ PasswordNext

SpecLinePrompts == InitLinePrompts /\ [][LinePromptsNext]_vars

\* A step of a line prompt that has read a line from the terminal.
ReadsLine == status = "await" /\ Len(inputs') = Len(inputs) + 1

\* The prompt is up again after an error line: still waiting, nothing returned.
Reprompted(e) ==
    /\ status' = "await" /\ result' = Pending
    /\ error' = e
    /\ shown' = shown + 1

\* C21: in Input and PasswordInput a line that fails to parse, a line a
\* validator rejects and a confirmation that does not match the password
\* each render their error and prompt again; no step that has read a line
\* ends the interaction with an error.
C21_ValidationFailuresReprompt ==
    [][ReadsLine
        => LET input == inputs'[Len(inputs')]
           IN /\ status' # "error"
              /\ (ctl = "Input" /\ InputIsParsed(input) /\ Parse(T, input) = None)
                    => Reprompted(ParseError)
              /\ (ctl = "Input" /\ InputIsParsed(input) /\ Parse(T, input) # None
                     /\ \E i \in 1 .. Len(validator) : input \in Rejects(validator[i]))
                    => (\E i \in 1 .. Len(validator) : Reprompted(ValidatorError(i)))
              /\ (ctl = "PasswordInput" /\ asking = "confirmation"
                     /\ PasswordIsEntry(input) /\ password # Some(input))
                    => (Reprompted(MismatchError) /\ asking' = "password")]_vars

\* A password, a different confirmation, and the first prompt is up again
\* with the mismatch error rendered.
C21_Witness ==
    /\ ctl = "PasswordInput" /\ status = "await" /\ result = Pending
    /\ inputs = <<"a", "b">>
    /\ error = MismatchError
    /\ asking = "password"
    /\ shown = 3

\* The lines a password prompt took as an entry: every line read but the
\* empty ones it refused.
Entries == SelectSeq(inputs, PasswordIsEntry)

\* C22: with a confirmation prompt, the entries pair up as password and
\* confirmation from the first prompt on, every pair before the last
\* differs, and a password is returned exactly when the last pair is equal,
\* that password being the result; with allow_empty_password false the
\* returned password is not empty.
C22_PasswordNeedsMatchingConfirmation ==
    (ctl = "PasswordInput" /\ status \in {"await", "done"})
        => /\ confirmation_prompt
                => /\ \A k \in 1 .. (Len(Entries) \div 2) :
                          (Entries[2 * k - 1] = Entries[2 * k])
                              <=> (status = "done" /\ 2 * k = Len(Entries))
                   /\ status = "done"
                        => /\ Len(Entries) >= 2 /\ Len(Entries) % 2 = 0
                           /\ result = OkPassword(Entries[Len(Entries) - 1])
                   /\ status = "await"
                        => asking = (IF Len(Entries) % 2 = 0
                                       THEN "password" ELSE "confirmation")
           /\ (status = "done" /\ ~allow_empty_password) => result.val[1] # ""

\* A mismatch, then a new password that happens to equal the rejected
\* confirmation, then its matching confirmation.
C22_Witness ==
    /\ ctl = "PasswordInput" /\ status = "done"
    /\ confirmation_prompt /\ ~allow_empty_password
    /\ inputs = <<"a", "b", "", "b", "b">>
    /\ result = OkPassword("b")

\* =================================================================
\* select.rs: the builders
\* =================================================================
\* The most builder calls followed on one builder, and the longest slice
\* passed to one call.
MaxCalls == 3
MaxArgs == 2

\* What a session adds to a built prompt, and the line prompts' state.
sessionVars == <<rows, allow_quit, capacity, pages, sel, page, checked, order,
                 drag, hidden, status, result, last, vertOnly, flips, pre,
                 trip, run, spaced, promptVars>>

\* No session has started on the prompt under construction.  T is the type
\* of the values handed to item() and items().
NoSession ==
    /\ rows = MaxRows
    /\ allow_quit = FALSE
    /\ capacity = 0
    /\ pages = 0
    /\ sel = 0
    /\ page = 0
    /\ checked = << >>
    /\ order = << >>
    /\ drag = FALSE
    /\ hidden = FALSE
    /\ status = "building"
    /\ result = Pending
    /\ last = "none"
    /\ vertOnly = TRUE
    /\ flips = << >>
    /\ pre = << >>
    /\ trip = << >>
    /\ run = <<"none", 0, 0>>
    /\ spaced = FALSE
    /\ T \in InputTypes
    /\ show_default = TRUE
    /\ permit_empty = FALSE
    /\ validator = << >>
    /\ inputs = << >>
    /\ shown = 0
    /\ error = NoError
    /\ NoPassword

\* The values a caller can hand to item() and items(), by their type.
Values(t) == IF t = "String" THEN {"a", "b"} ELSE {7, 8}

Slices(t) == UNION {[1 .. k -> Values(t)] : k \in 0 .. MaxArgs}

\* item.to_string(): a string is copied, a u8 is written in decimal.
ToString(t, v) ==
    IF t = "String" THEN v
    ELSE <<"0", "1", "2", "3", "4", "5", "6", "7", "8", "9">>[v + 1]

\* Mutant of PushAll: the slice is pushed last element first.
RECURSIVE PushAllReversed(_, _, _)
PushAllReversed(v, t, xs) ==
    IF xs = << >> THEN v
    ELSE PushAllReversed(Append(v, ToString(t, xs[Len(xs)])), t,
                         SubSeq(xs, 1, Len(xs) - 1))

\* for item in items { self.items.push(item.to_string()); }
RECURSIVE PushAll(_, _, _)
PushAll(v, t, xs) ==
    IF xs = << >> THEN v
    ELSE PushAll(Append(v, ToString(t, xs[1])), t, Tail(xs))

Call(f, a) == [fn |-> f, args |-> a]

\* ---------------------------------------------------------- Select builder
\* Select::with_theme
InitSelectBuilder ==
    /\ ctl = "Select"
    /\ default = Unset
    /\ items = << >>
    /\ n = 0
    /\ has_prompt = FALSE
    /\ clear = TRUE
    /\ paged = FALSE
    /\ defaults = << >>
    /\ calls = << >>
    /\ NoSession

\* Select::default
SelectBuilderDefault ==
    /\ ctl = "Select" /\ status = "building" /\ Len(calls) < MaxCalls
    /\ \E val \in 0 .. MaxArgs :
        /\ default' = val
        /\ calls' = Append(calls, Call("default", <<val>>))
    /\ UNCHANGED <<ctl, n, items, paged, has_prompt, clear, defaults, sessionVars>>

\* Select::item
SelectBuilderItem ==
    /\ ctl = "Select" /\ status = "building" /\ Len(calls) < MaxCalls
    /\ \E item \in Values(T) :
        /\ items' = Append(items, ToString(T, item))
        /\ calls' = Append(calls, Call("item", <<item>>))
    /\ n' = Len(items')
    /\ UNCHANGED <<ctl, default, paged, has_prompt, clear, defaults, sessionVars>>

\* Select::items
SelectBuilderItems ==
    /\ ctl = "Select" /\ status = "building" /\ Len(calls) < MaxCalls
    /\ \E xs \in Slices(T) :
        /\ items' = PushAll(items, T, xs)
        /\ calls' = Append(calls, Call("items", xs))
    /\ n' = Len(items')
    /\ UNCHANGED <<ctl, default, paged, has_prompt, clear, defaults, sessionVars>>

SelectBuilderNext ==
    \/ SelectBuilderDefault
    \/ SelectBuilderItem
    \/ SelectBuilderItems

SpecSelectBuilder == InitSelectBuilder /\ [][SelectBuilderNext]_vars

\* The string forms of the values supplied to the item() and items() calls
\* among cs, in call order and element order.
RECURSIVE StringForms(_, _)
StringForms(t, cs) ==
    IF cs = << >> THEN << >>
    ELSE LET c == cs[1]
         IN (IF c.fn \in {"item", "items"}
               THEN [k \in 1 .. Len(c.args) |-> ToString(t, c.args[k])]
               ELSE << >>) \o StringForms(t, Tail(cs))

\* C23: on a Select builder the item list is the concatenation, in call
\* order and element order, of the string forms of the values given to
\* item() and items(); default() calls contribute nothing to it.
C23_ItemsAreSuppliedValuesInOrder ==
    (ctl = "Select" /\ status = "building")
        => (items = StringForms(T, calls) /\ n = Len(items))

\* A two-element items() call, a default() call and an item() call on
\* numbers: three items in the order supplied.
C23_Witness ==
    /\ ctl = "Select" /\ status = "building" /\ T = "u8"
    /\ Len(calls) = 3
    /\ calls[1] = Call("items", <<8, 7>>)
    /\ calls[2].fn = "default"
    /\ calls[3] = Call("item", <<8>>)
    /\ items = <<"8", "7", "8">>

C25_DragMoveIsAdjacentSwap ==
    [][(ctl = "OrderList" /\ LoopStep /\ drag /\ last' \in {"Up", "Down"})
        => /\ (sel' - sel) \in {1, 0 - 1}
           /\ order' = Swap(order, sel, sel')]_vars

\* The keys a controller has no arm for: any key outside its navigation,
\* toggle, confirm and cancel keys, and Left and Right with paging off.
IsUnrecognised(key) ==
    \/ key = "Other"
    \/ (~paged /\ key \in {"Left", "Right"})
    \/ (ctl = "Checkboxes" /\ key = "q")
    \/ (ctl = "OrderList" /\ key \in {"Escape", "q"})

\* C26: a key the controller does not recognise is ignored: the loop goes
\* on to the next frame without error, and cursor, page, checked flags,
\* order and drag flag are what they were before the key.
C26_UnrecognisedKeyIgnored ==
    [][(KeyStep /\ IsUnrecognised(last'))
        => /\ status' = "await"
           /\ sel' = sel /\ page' = page
           /\ checked' = checked /\ order' = order /\ drag' = drag]_vars

\* C27: in an OrderList, Space changes the drag flag and nothing else of
\* cursor, page and order; no key changes the order while the drag flag is
\* off; and as long as no Space has been handled the order is the identity,
\* which is then what Enter returns.
C27_OrderChangesOnlyInDragMode ==
    /\ [][(ctl = "OrderList" /\ LoopStep /\ last' = "Space")
            => (drag' = ~drag /\ sel' = sel /\ page' = page /\ order' = order)]_vars
    /\ [][(ctl = "OrderList" /\ KeyStep /\ ~drag) => order' = order]_vars
    /\ []((ctl = "OrderList" /\ ~spaced)
            => /\ order = [i \in Idx |-> i]
               /\ status = "done" => result = OkVec([k \in 1 .. n |-> k - 1]))

\* Enter after moves without any Space: a paged session has moved its
\* cursor to another page and returned 0,1,...,n-1.
C27_Witness ==
    /\ ctl = "OrderList" /\ status = "done" /\ ~spaced
    /\ n >= 4 /\ paged /\ page >= 1 /\ sel >= 2
    /\ result = OkVec([k \in 1 .. n |-> k - 1])

\* ------------------------------------------------------ Checkboxes builder
\* Checkboxes::with_theme.  The builder's defaults vector is kept as a
\* sequence, one flag per item pushed.
InitCheckboxesBuilder ==
    /\ ctl = "Checkboxes"
    /\ default = Unset
    /\ items = << >>
    /\ n = 0
    /\ has_prompt = FALSE
    /\ clear = TRUE
    /\ paged = FALSE
    /\ defaults = << >>
    /\ calls = << >>
    /\ NoSession

\* The values handed to this builder's item calls: one per type, the flags
\* being what its calls differ in.
BoxValues(t) == IF t = "String" THEN {"a"} ELSE {7}

\* The slices handed to items() and, as (item, checked) pairs, to
\* items_checked().
BoxSlices(t) == UNION {[1 .. k -> BoxValues(t)] : k \in 0 .. MaxArgs}

CheckedSlices(t) ==
    UNION {[1 .. k -> BoxValues(t) \X BOOLEAN] : k \in 0 .. MaxArgs}

\* The slices of flags handed to defaults().
FlagSlices == UNION {[1 .. k -> BOOLEAN] : k \in 0 .. MaxArgs}

\* val.to_vec().iter().cloned().chain(repeat(false)).take(len).collect()
PadOrTruncate(val, len) ==
    [k \in 1 .. len |-> IF k <= Len(val) THEN val[k] ELSE FALSE]

\* for &(ref item, checked) in items { self.defaults.push(checked); }
PushFlags(d, pairs) == d \o [k \in 1 .. Len(pairs) |-> pairs[k][2]]

\* for item in items { self.defaults.push(false); }
PushFalse(d, xs) == d \o [k \in 1 .. Len(xs) |-> FALSE]

\* The items of a slice of (item, checked) pairs.
PairItems(pairs) == [k \in 1 .. Len(pairs) |-> pairs[k][1]]

\* A builder call is followed while the item list stays within MaxBoxes.
CheckboxesBuilderCall(more) ==
    /\ ctl = "Checkboxes" /\ status = "building"
    /\ Len(calls) < MaxCalls
    /\ Len(items) + more <= MaxBoxes

\* Mutant of CheckboxesBuilderDefaults: the slice is stored as it is.
CheckboxesBuilderDefaultsAsGiven ==
    /\ CheckboxesBuilderCall(0)
    /\ \E val \in FlagSlices :
        /\ defaults' = val
        /\ calls' = Append(calls, Call("defaults", val))
    /\ UNCHANGED <<ctl, n, items, default, paged, has_prompt, clear, sessionVars>>

\* Checkboxes::defaults
CheckboxesBuilderDefaults ==
    /\ CheckboxesBuilderCall(0)
    /\ \E val \in FlagSlices :
        /\ defaults' = PadOrTruncate(val, Len(items))
        /\ calls' = Append(calls, Call("defaults", val))
    /\ UNCHANGED <<ctl, n, items, default, paged, has_prompt, clear, sessionVars>>

\* Checkboxes::item_checked
CheckboxesBuilderItemChecked ==
    /\ CheckboxesBuilderCall(1)
    /\ \E item \in BoxValues(T), flag \in BOOLEAN :
        /\ items' = Append(items, ToString(T, item))
        /\ defaults' = Append(defaults, flag)
        /\ calls' = Append(calls, Call("item_checked", <<item, flag>>))
    /\ n' = Len(items')
    /\ UNCHANGED <<ctl, default, paged, has_prompt, clear, sessionVars>>

\* Checkboxes::item, which is item_checked(item, false)
CheckboxesBuilderItem ==
    /\ CheckboxesBuilderCall(1)
    /\ \E item \in BoxValues(T) :
        /\ items' = Append(items, ToString(T, item))
        /\ defaults' = Append(defaults, FALSE)
        /\ calls' = Append(calls, Call("item", <<item>>))
    /\ n' = Len(items')
    /\ UNCHANGED <<ctl, default, paged, has_prompt, clear, sessionVars>>

\* Checkboxes::items
CheckboxesBuilderItems ==
    /\ \E xs \in BoxSlices(T) :
        /\ CheckboxesBuilderCall(Len(xs))
        /\ items' = PushAll(items, T, xs)
        /\ defaults' = PushFalse(defaults, xs)
        /\ calls' = Append(calls, Call("items", xs))
    /\ n' = Len(items')
    /\ UNCHANGED <<ctl, default, paged, has_prompt, clear, sessionVars>>

\* Checkboxes::items_checked
CheckboxesBuilderItemsChecked ==
    /\ \E pairs \in CheckedSlices(T) :
        /\ CheckboxesBuilderCall(Len(pairs))
        /\ items' = PushAll(items, T, PairItems(pairs))
        /\ defaults' = PushFlags(defaults, pairs)
        /\ calls' = Append(calls, Call("items_checked", pairs))
    /\ n' = Len(items')
    /\ UNCHANGED <<ctl, default, paged, has_prompt, clear, sessionVars>>

CheckboxesBuilderNext ==
    \/ CheckboxesBuilderDefaults
    \/ CheckboxesBuilderItemChecked
    \/ CheckboxesBuilderItem
    \/ CheckboxesBuilderItems
    \/ CheckboxesBuilderItemsChecked

SpecCheckboxesBuilder == InitCheckboxesBuilder /\ [][CheckboxesBuilderNext]_vars

\* The latest builder call was defaults().
DefaultsCalled ==
    /\ Len(calls') = Len(calls) + 1
    /\ calls'[Len(calls')].fn = "defaults"

\* C28: on a Checkboxes builder the defaults vector is as long as the item
\* list after every call, and a defaults() call leaves the flags it was
\* given cut to the item count or filled up to it with false.
C28_DefaultsAsLongAsItems ==
    /\ []((ctl = "Checkboxes" /\ status = "building")
            => (Len(defaults) = Len(items) /\ n = Len(items)))
    /\ [][(ctl = "Checkboxes" /\ status = "building" /\ DefaultsCalled)
            => LET val == calls'[Len(calls')].args
               IN /\ items' = items
                  /\ \A k \in 1 .. Len(items) :
                        defaults'[k] = (k <= Len(val) /\ val[k])]_vars

\* Three items, then defaults() with a single flag: the vector is filled up
\* to three flags.
C28_Witness ==
    /\ ctl = "Checkboxes" /\ status = "building"
    /\ Len(items) = 3
    /\ calls # << >>
    /\ calls[Len(calls)] = Call("defaults", <<TRUE>>)
    /\ defaults = <<TRUE, FALSE, FALSE>>

\* The first validator, in registration order, that rejects the text; 0 if
\* none does.
FirstRejecting(vs, text) ==
    IF \E i \in 1 .. Len(vs) : text \in Rejects(vs[i])
      THEN CHOOSE i \in 1 .. Len(vs) :
             /\ text \in Rejects(vs[i])
             /\ \A j \in 1 .. (i - 1) : text \notin Rejects(vs[j])
      ELSE 0

\* The text of the value an Input returned: the line entered, or the string
\* form of the default when the empty line took the default.
ReturnedText ==
    IF inputs[Len(inputs)] = "" /\ default # None
      THEN ToString(T, default[1])
      ELSE inputs[Len(inputs)]

\* C29: the validators of an Input are applied to the entered text in
\* registration order and the error rendered is that of the first one that
\* rejects it; and every value returned, parsed from the entered text or
\* taken from the default on an empty line, is accepted by every validator.
C29_ReturnedValuesAreValidated ==
    /\ [][(ctl = "Input" /\ ReadsLine)
            => LET input == inputs'[Len(inputs')]
               IN (InputIsParsed(input) /\ Parse(T, input) # None
                      /\ FirstRejecting(validator, input) # 0)
                    => Reprompted(ValidatorError(FirstRejecting(validator, input)))]_vars
    /\ []((ctl = "Input" /\ status = "done")
            => FirstRejecting(validator, ReturnedText) = 0)
====
